---- MODULE Spec2Model ----
(***************************************************************************)
(* Local-AI: the ordered message ledger (Express + MySQL/InnoDB storage    *)
(* API, src/unnamed/part_000) and the streaming chat session of the React  *)
(* UI (src/react-ui/src/App.js, lib/api.js, src/unnamed/part_001).         *)
(*                                                                         *)
(* Part I models POST /chats/:id/messages as the transaction it runs on    *)
(* an InnoDB connection (tables are ENGINE=InnoDB, no isolation level is   *)
(* set, so REPEATABLE READ): rows are written in place and undone on       *)
(* rollback; a locking read takes next-key locks on the index range it     *)
(* scans in uq_chat_idx (chat_id, idx); gap locks of different             *)
(* transactions are compatible with each other and block only inserts      *)
(* into the gap; a cycle of waiting transactions is broken by rolling one  *)
(* of them back.                                                           *)
(***************************************************************************)
EXTENDS Integers, Sequences, FiniteSets, TLC

----------------------------------------------------------------------------
(* Bounds *)

\* concurrent append requests
NReq == 3
\* conversations 1..NChats belong to user 1, conversation NChats+1 to user 2,
\* id NChats+2 names no conversation
NChats == 2
\* turns a session submits
NTurns == 2
\* delta records the streams of a session carry in all
MaxDeltas == 2
\* answers other than 200 and transport errors a session meets in all
MaxFaults == 1
\* lines of a response body
MaxLines == 3
\* characters of a text that is normalized
MaxText == 7
\* normalization passes over one text
MaxPasses == 2
MaxLiveDeltas == 1
NCalls == 2

----------------------------------------------------------------------------
(* Part I: the ledger *)

VARIABLES
    chats,      \* table chats: id -> [user_id, updated_at]
    messages,   \* table messages: rows [id, chat_id, role, idx, created_at, trx]; trx = 0: committed
    clock,      \* the value nowISO() returned last
    pc,         \* per request: the statement its handler is at
    rq,         \* per request: [user, chat, role], req.user.id, req.params.id, req.body.role
    nextIdx,    \* per request: const nextIdx
    ts,         \* per request: const ts
    resp,       \* per request: HTTP status sent, 0 while none
    cause,      \* per request: why it was answered with an error
    locks,      \* per request: InnoDB locks its transaction holds
    undo        \* per request: before-image of the chats row it updated

ledgerVars == <<chats, messages, clock, pc, rq, nextIdx, ts, resp, cause, locks, undo>>

VARIABLES
    last,               \* messages[messages.length - 1]: [role, content]
    liveBuffer,         \* liveBufferRef.current
    flushTimer,         \* flushTimerRef.current is set
    lastAssistantText,  \* lastAssistantTextRef.current
    loading,            \* loading
    errorShown,         \* error # ''
    abortRef,           \* abortRef.current: <<turn, 1>> ctrl, <<turn, 2>> ctrl2, <<0, 0>> null
    aborted,            \* the controllers abort() was called on
    currentChatId,      \* currentChatId, 0 for null
    incognito,          \* incognito
    nextChatId,         \* the id POST /chats hands out next
    tpc,                \* per turn: the await its sendChat / onDone is at
    tv,                 \* per turn: the closure's incognito, chatId, finalText
    attempt,            \* per turn: fetchWithAuth's attempt of the current call
    ledger,             \* the appends the storage API committed
    faults,             \* the non-200 answers and transport errors so far
    gh                  \* per turn: what happened (history)

sessionVars == <<last, liveBuffer, flushTimer, lastAssistantText, loading, errorShown,
                 abortRef, aborted, currentChatId, incognito, nextChatId, tpc, tv,
                 attempt, ledger, faults, gh>>

VARIABLES
    wire,       \* the bytes of the response body not read yet
    whole,      \* the bytes of the response body
    buf,        \* chatWithOllama: buf
    acc,        \* chatWithOllama: acc
    events,     \* the onDelta / onDone calls made so far, in order
    cut,        \* a chunk has ended inside a record with content (history)
    dpc         \* chatWithOllama: off, reading, returned, raised (exception of the
                \* line loop), failed (read() rejected)

decoderVars == <<wire, whole, buf, acc, events, cut, dpc>>

VARIABLES
    nIn,        \* a text
    nOut        \* the results of the successive normalization passes over it

normVars == <<nIn, nOut>>

VARIABLES
    apiKey,     \* localStorage chat_api_key: 0 when absent, else the identity it names
    identities, \* the identities /auth/register has issued
    fpc,        \* fetchWithAuth: the await the call is at
    retryArg,   \* fetchWithAuth: the parameter retry of the invocation in flight
    sent,       \* the requests of the call, in order: [path, key]
    answers,    \* the statuses the requests to the call's path were answered with
    result,     \* the status of the response returned to the caller, 0 before
    provisions, \* the calls of ensureApiKeyInteractive the call has made
    calls       \* the API calls started

authVars == <<apiKey, identities, fpc, retryArg, sent, answers, result, provisions, calls>>

\* what the steps of one part leave alone
notLedger == <<sessionVars, decoderVars, normVars, authVars>>
notSession == <<ledgerVars, decoderVars, normVars, authVars>>
notDecoder == <<ledgerVars, sessionVars, normVars, authVars>>
notNorm == <<ledgerVars, sessionVars, decoderVars, authVars>>
notAuth == <<ledgerVars, sessionVars, decoderVars, normVars>>

Reqs == 1..NReq
Users == {1, 2}
ChatRows == 1..(NChats + 1)
MissingChat == NChats + 2
ChatIds == 1..MissingChat

\* the index uq_chat_idx orders rows by (chat_id, idx)
Key(row) == <<row.chat_id, row.idx>>
KeyLt(a, b) == a[1] < b[1] \/ (a[1] = b[1] /\ a[2] < b[2])
Infimum == <<0, 0>>
Supremum == <<MissingChat + 1, 0>>

Keys(rows) == {Key(m) : m \in rows}

MaxKey(S) == CHOOSE k \in S : \A j \in S : j = k \/ KeyLt(j, k)
MinKey(S) == CHOOSE k \in S : \A j \in S : j = k \/ KeyLt(k, j)

\* the index record before / after position k among rows
PredKey(k, rows) ==
    LET S == {j \in Keys(rows) : KeyLt(j, k)}
    IN  IF S = {} THEN Infimum ELSE MaxKey(S)
SuccKey(k, rows) ==
    LET S == {j \in Keys(rows) : KeyLt(k, j)}
    IN  IF S = {} THEN Supremum ELSE MinKey(S)

NoLocks == [held |-> FALSE, rec |-> {}, lo |-> Infimum, hi |-> Infimum]
NoUndo == [chat |-> 0, updated_at |-> 0]

\* an ownership check that ignores the user
ExistingChat(c, u) == c \in DOMAIN chats
\* SELECT id FROM chats WHERE id = ? AND user_id = ? LIMIT 1
OwnedChat(c, u) == c \in DOMAIN chats /\ chats[c].user_id = u

\* SELECT COALESCE(MAX(idx), -1) over the rows of chat c
MaxIdx(c) ==
    LET S == {m.idx : m \in {x \in messages : x.chat_id = c}}
    IN  IF S = {} THEN -1 ELSE CHOOSE i \in S : \A j \in S : j <= i

\* a COALESCE default of 0 instead of -1
NextIdxCoalesceZero(m) == IF m = -1 THEN 1 ELSE m + 1
\* const nextIdx = Number(m[0].m) + 1
NextIdx(m) == m + 1

\* the gap locks of request r cover index position k
GapCovers(r, k) == locks[r].held /\ KeyLt(locks[r].lo, k) /\ KeyLt(k, locks[r].hi)

\* FOR UPDATE needs a record lock on every index record of chat c: it waits
\* while another transaction holds one (a row it scanned, or inserted and
\* has not committed).  A gap lock never makes a locking read wait.
ScanWaitsFor(r, o) ==
    /\ pc[r] = "checked" /\ o # r
    /\ locks[o].rec \cap Keys({m \in messages : m.chat_id = rq[r].chat}) # {}

\* INSERT needs an insert-intention lock on the gap its key falls in: it
\* waits while another transaction holds a gap lock there, and the unique
\* key check waits on an uncommitted row with the same key.
InsertWaitsFor(r, o) ==
    /\ pc[r] = "locked" /\ o # r
    /\ \/ GapCovers(o, <<rq[r].chat, nextIdx[r]>>)
       \/ <<rq[r].chat, nextIdx[r]>> \in locks[o].rec

\* UPDATE chats needs the row lock of the chats row
UpdateWaitsFor(r, o) ==
    /\ pc[r] = "inserted" /\ o # r
    /\ undo[o].chat = rq[r].chat

\* DELETE FROM chats needs the row lock of the chats row and, for the
\* cascade, a record lock on every message row of the chat: it waits while
\* another transaction has written the chats row, holds the shared lock its
\* INSERT took on it as the parent row, or holds a record lock on a message
\* row of the chat.  The statement holds no lock between steps of the
\* model: a lock cycle it is part of is covered by DeleteFault (the DELETE is
\* the victim) and by Fault (the append is).
DeleteWaitsFor(r, o) ==
    /\ pc[r] = "dchecked" /\ o # r
    /\ \/ undo[o].chat = rq[r].chat
       \/ \E m \in messages : m.trx = o /\ m.chat_id = rq[r].chat
       \/ locks[o].rec \cap Keys({m \in messages : m.chat_id = rq[r].chat}) # {}

WaitsFor(r, o) ==
    ScanWaitsFor(r, o) \/ InsertWaitsFor(r, o) \/ UpdateWaitsFor(r, o) \/ DeleteWaitsFor(r, o)
Waiting(r) == \E o \in Reqs : WaitsFor(r, o)

\* the wait-for graph has a cycle through r
RECURSIVE Reaches(_, _, _)
Reaches(a, b, n) ==
    \/ WaitsFor(a, b)
    \/ n > 0 /\ \E c \in Reqs : WaitsFor(a, c) /\ Reaches(c, b, n - 1)
InDeadlock(r) == Reaches(r, r, NReq)

\* the tables after request r's transaction is rolled back: its rows are
\* removed, the chats row it updated gets its before-image
UndoKeepsUpdatedAt(r) == chats
UndoneChats(r) ==
    IF undo[r].chat = 0 THEN chats
    ELSE [chats EXCEPT ![undo[r].chat].updated_at = undo[r].updated_at]
UndoneMessages(r) == {m \in messages : m.trx # r}

\* the locks after request r's transaction ended: r's are released; a gap
\* lock of another transaction that ended at a row r's rollback removes
\* is inherited by the neighbouring gap
LocksAfter(r, rows) ==
    [o \in Reqs |->
        IF o = r \/ ~locks[o].held THEN NoLocks
        ELSE [locks[o] EXCEPT
                !.lo = IF @ \in Keys(rows) \/ @ = Infimum THEN @ ELSE PredKey(@, rows),
                !.hi = IF @ \in Keys(rows) \/ @ = Supremum THEN @ ELSE SuccKey(@, rows)]]

\* await conn.rollback(); res.status(code)
Rollback(r, code, why) ==
    /\ messages' = UndoneMessages(r)
    /\ chats' = UndoneChats(r)
    /\ locks' = LocksAfter(r, UndoneMessages(r))
    /\ undo' = [undo EXCEPT ![r] = NoUndo]
    /\ resp' = [resp EXCEPT ![r] = code]
    /\ cause' = [cause EXCEPT ![r] = why]
    /\ pc' = [pc EXCEPT ![r] = "done"]

LedgerInit ==
    /\ chats = [c \in ChatRows |-> [user_id |-> IF c <= NChats THEN 1 ELSE 2, updated_at |-> 0]]
    /\ messages = {}
    /\ clock = 0
    /\ pc = [r \in Reqs |-> "none"]
    /\ rq = [r \in Reqs |-> [kind |-> "none", user |-> 0, chat |-> 0, role |-> ""]]
    /\ nextIdx = [r \in Reqs |-> 0]
    /\ ts = [r \in Reqs |-> 0]
    /\ resp = [r \in Reqs |-> 0]
    /\ cause = [r \in Reqs |-> "none"]
    /\ locks = [r \in Reqs |-> NoLocks]
    /\ undo = [r \in Reqs |-> NoUndo]

\* req.body.role as String(role) renders it: absent (or another falsy
\* value), the two roles of the UI, a role the UI never sends.  The handler
\* reads the role for its truthiness only and stores it as it is, so the
\* requests carry one role each: the last one the role the UI never sends,
\* the others the UI's two in turn; any of them may come without a role.
BodyRoles(r) ==
    {"", IF r = NReq THEN "system" ELSE IF r % 2 = 1 THEN "user" ELSE "assistant"}

\* if (!role || typeof content !== 'string') return res.status(400): the
\* body passes whatever its role is, as long as there is one
Validated(role) == role # ""

\* app.post('/chats/:id/messages', auth, ...): the request of user u for
\* chat c with the given role passed auth and validation and got a
\* connection
Post(r, u, c, role) ==
    /\ pc[r] = "none"
    /\ Validated(role)
    /\ rq' = [rq EXCEPT ![r] = [kind |-> "append", user |-> u, chat |-> c, role |-> role]]
    /\ pc' = [pc EXCEPT ![r] = "start"]
    /\ UNCHANGED <<chats, messages, clock, nextIdx, ts, resp, cause, locks, undo>>
    /\ UNCHANGED notLedger

\* await conn.beginTransaction()
Begin(r) ==
    /\ pc[r] = "start"
    /\ pc' = [pc EXCEPT ![r] = "begun"]
    /\ UNCHANGED <<chats, messages, clock, rq, nextIdx, ts, resp, cause, locks, undo>>
    /\ UNCHANGED notLedger

\* the ownership check; no row: rollback and 404
CheckOwner(r) ==
    /\ pc[r] = "begun"
    /\ IF OwnedChat(rq[r].chat, rq[r].user)
       THEN /\ pc' = [pc EXCEPT ![r] = "checked"]
            /\ UNCHANGED <<chats, messages, resp, cause, locks, undo>>
       ELSE Rollback(r, 404, "notfound")
    /\ UNCHANGED <<clock, rq, nextIdx, ts>>
    /\ UNCHANGED notLedger

\* SELECT COALESCE(MAX(idx), -1) ... FOR UPDATE, then nextIdx, id and ts
SelectMax(r) ==
    /\ pc[r] = "checked"
    /\ ~Waiting(r)
    /\ LET c == rq[r].chat
           below == {m \in messages : m.chat_id < c}
           above == {m \in messages : m.chat_id > c}
       IN  /\ locks' = [locks EXCEPT ![r] =
                 [held |-> TRUE,
                  rec |-> Keys({m \in messages : m.chat_id = c}),
                  lo |-> IF below = {} THEN Infimum ELSE MaxKey(Keys(below)),
                  hi |-> IF above = {} THEN Supremum ELSE MinKey(Keys(above))]]
           /\ nextIdx' = [nextIdx EXCEPT ![r] = NextIdx(MaxIdx(c))]
    /\ clock' = clock + 1
    /\ ts' = [ts EXCEPT ![r] = clock + 1]
    /\ pc' = [pc EXCEPT ![r] = "locked"]
    /\ UNCHANGED <<chats, messages, rq, resp, cause, undo>>
    /\ UNCHANGED notLedger

\* INSERT INTO messages ...; a committed row with the same (chat_id, idx)
\* or a missing parent row makes the statement fail: catch, rollback, 500
Insert(r) ==
    /\ pc[r] = "locked"
    /\ ~Waiting(r)
    /\ LET k == <<rq[r].chat, nextIdx[r]>>
       IN  IF k \in Keys(messages) \/ rq[r].chat \notin DOMAIN chats
           THEN Rollback(r, 500, IF k \in Keys(messages) THEN "dup" ELSE "fk")
           ELSE /\ messages' = messages \cup
                      {[id |-> r, chat_id |-> k[1], role |-> rq[r].role, idx |-> k[2],
                        created_at |-> ts[r], trx |-> r]}
                /\ locks' = [locks EXCEPT ![r].rec = @ \cup {k}]
                /\ pc' = [pc EXCEPT ![r] = "inserted"]
                /\ UNCHANGED <<chats, resp, cause, undo>>
    /\ UNCHANGED <<clock, rq, nextIdx, ts>>
    /\ UNCHANGED notLedger

\* InnoDB finds the transaction in a cycle of lock waits and rolls it back
\* (ER_LOCK_DEADLOCK); the statement fails: catch, rollback, 500
DeadlockVictim(r) ==
    /\ InDeadlock(r)
    /\ Rollback(r, 500, "deadlock")
    /\ UNCHANGED <<clock, rq, nextIdx, ts>>
    /\ UNCHANGED notLedger

\* an update that takes a timestamp of its own
BumpTsNow(r) == clock + 1
\* [ts, req.params.id]: the ts of the INSERT
BumpTs(r) == ts[r]

\* UPDATE chats SET updated_at = ? WHERE id = ?
UpdateChat(r) ==
    /\ pc[r] = "inserted"
    /\ ~Waiting(r)
    /\ undo' = [undo EXCEPT ![r] = [chat |-> rq[r].chat, updated_at |-> chats[rq[r].chat].updated_at]]
    /\ chats' = [chats EXCEPT ![rq[r].chat].updated_at = BumpTs(r)]
    /\ pc' = [pc EXCEPT ![r] = "updated"]
    /\ UNCHANGED <<messages, clock, rq, nextIdx, ts, resp, cause, locks>>
    /\ UNCHANGED notLedger

\* await conn.commit(); res.json({ id, idx: nextIdx, created_at: ts })
Commit(r) ==
    /\ pc[r] = "updated"
    /\ messages' = {IF m.trx = r THEN [m EXCEPT !.trx = 0] ELSE m : m \in messages}
    /\ locks' = LocksAfter(r, messages)
    /\ undo' = [undo EXCEPT ![r] = NoUndo]
    /\ resp' = [resp EXCEPT ![r] = 200]
    /\ pc' = [pc EXCEPT ![r] = "done"]
    /\ UNCHANGED <<chats, clock, rq, nextIdx, ts, cause>>
    /\ UNCHANGED notLedger

\* the statement the handler is at throws (storage unavailable, lock wait
\* timeout): catch, rollback, 500
Fault(r) ==
    /\ pc[r] \in {"start", "begun", "checked", "locked", "inserted", "updated"}
    /\ Rollback(r, 500, pc[r])
    /\ UNCHANGED <<clock, rq, nextIdx, ts>>
    /\ UNCHANGED notLedger

\* app.delete('/chats/:id', auth, ...): the request of user u for chat c
\* passed auth
PostDelete(r, u, c) ==
    /\ pc[r] = "none"
    /\ rq' = [rq EXCEPT ![r] = [kind |-> "delete", user |-> u, chat |-> c, role |-> ""]]
    /\ pc' = [pc EXCEPT ![r] = "dstart"]
    /\ UNCHANGED <<chats, messages, clock, nextIdx, ts, resp, cause, locks, undo>>
    /\ UNCHANGED notLedger

\* the ownership check of the delete; no row: 404
DeleteCheck(r) ==
    /\ pc[r] = "dstart"
    /\ IF OwnedChat(rq[r].chat, rq[r].user)
       THEN /\ pc' = [pc EXCEPT ![r] = "dchecked"]
            /\ UNCHANGED <<resp, cause>>
       ELSE /\ pc' = [pc EXCEPT ![r] = "done"]
            /\ resp' = [resp EXCEPT ![r] = 404]
            /\ cause' = [cause EXCEPT ![r] = "notfound"]
    /\ UNCHANGED <<chats, messages, clock, rq, nextIdx, ts, locks, undo>>
    /\ UNCHANGED notLedger

\* a schema without ON DELETE CASCADE on messages.chat_id
CascadedNothing(c) == messages
\* FOREIGN KEY (chat_id) REFERENCES chats(id) ON DELETE CASCADE
Cascaded(c) == {m \in messages : m.chat_id # c}

\* DELETE FROM chats WHERE id = ?; res.json({ ok: true })
DeleteExec(r) ==
    /\ pc[r] = "dchecked"
    /\ ~Waiting(r)
    /\ LET c == rq[r].chat
       IN  IF c \in DOMAIN chats
           THEN /\ chats' = [x \in DOMAIN chats \ {c} |-> chats[x]]
                /\ messages' = Cascaded(c)
                /\ locks' = LocksAfter(r, Cascaded(c))
           ELSE UNCHANGED <<chats, messages, locks>>
    /\ resp' = [resp EXCEPT ![r] = 200]
    /\ pc' = [pc EXCEPT ![r] = "done"]
    /\ UNCHANGED <<clock, rq, nextIdx, ts, cause, undo>>
    /\ UNCHANGED notLedger

\* a statement of the delete handler throws (storage unavailable, lock
\* wait timeout, deadlock victim): catch, 500
DeleteFault(r) ==
    /\ pc[r] \in {"dstart", "dchecked"}
    /\ resp' = [resp EXCEPT ![r] = 500]
    /\ cause' = [cause EXCEPT ![r] = pc[r]]
    /\ pc' = [pc EXCEPT ![r] = "done"]
    /\ UNCHANGED <<chats, messages, clock, rq, nextIdx, ts, locks, undo>>
    /\ UNCHANGED notLedger

LedgerNext ==
    \E r \in Reqs :
        \/ \E u \in Users, c \in ChatIds, role \in BodyRoles(r) : Post(r, u, c, role)
        \/ \E u \in Users, c \in ChatIds : PostDelete(r, u, c)
        \/ DeleteCheck(r)
        \/ DeleteExec(r)
        \/ DeleteFault(r)
        \/ Begin(r)
        \/ CheckOwner(r)
        \/ SelectMax(r)
        \/ Insert(r)
        \/ DeadlockVictim(r)
        \/ UpdateChat(r)
        \/ Commit(r)
        \/ Fault(r)

----------------------------------------------------------------------------
(* Part II: the chat session of the UI (App.js sendChat, stop; the stream  *)
(* reader chatWithOllama; the storage client lib/api.js).                  *)
(*                                                                         *)
(* Text is a sequence of characters over a small alphabet: "a" a letter,   *)
(* "s" a space, "n" a newline, "r" a carriage return, "F" one ``` fence    *)
(* marker, "M" one of the meta prefixes of sanitizeAssistant ("antwort:",  *)
(* "format:", ...).  Of the messages list the handlers read and write      *)
(* only the last element: `last` is that element.  A handler runs up to    *)
(* its next await as one step.                                             *)


Turns == 1..NTurns
NoCtrl == <<0, 0>>
NoText == <<>>
\* the fragments a delta record carries
Pieces == {<<"a">>, <<"F", "n">>}

IsWs(ch) == ch \in {"s", "n", "r"}

RECURSIVE TrimStart(_)
TrimStart(t) == IF t # <<>> /\ IsWs(Head(t)) THEN TrimStart(Tail(t)) ELSE t
RECURSIVE TrimEnd(_)
TrimEnd(t) == IF t # <<>> /\ IsWs(t[Len(t)]) THEN TrimEnd(SubSeq(t, 1, Len(t) - 1)) ELSE t
Trim(t) == TrimEnd(TrimStart(t))

\* t.indexOf('\n') + 1
RECURSIVE IndexOfNl(_)
IndexOfNl(t) ==
    IF t = <<>> THEN 0
    ELSE IF Head(t) = "n" THEN 1
    ELSE LET i == IndexOfNl(Tail(t)) IN IF i = 0 THEN 0 ELSE i + 1
\* t.split('\n')[0]
FirstLine(t) == IF IndexOfNl(t) = 0 THEN t ELSE SubSeq(t, 1, IndexOfNl(t) - 1)
\* metaLine.test(firstLine)
MetaLine(line) == line # <<>> /\ Head(line) = "M"

\* one round of the while loop of sanitizeAssistant
StripMeta(t) ==
    IF MetaLine(Trim(FirstLine(t))) THEN SubSeq(t, IndexOfNl(t) + 1, Len(t)) ELSE t
\* the one element of a singleton; each stage of a nested call is written
\* as a set of one value, so that the stage is computed once
Value(S) == CHOOSE v \in S : TRUE
SanitizeAssistant(s) ==
    Value({Trim(c) : c \in {StripMeta(b) : b \in {StripMeta(a) : a \in {TrimStart(s)}}}})

RECURSIVE DropCr(_)
DropCr(t) ==
    IF t = <<>> THEN <<>>
    ELSE IF Head(t) = "r" THEN DropCr(Tail(t)) ELSE <<Head(t)>> \o DropCr(Tail(t))
\* .replace(/\n{3,}/g, '\n\n')
RECURSIVE CollapseNl(_)
CollapseNl(t) ==
    IF Len(t) >= 3 /\ t[1] = "n" /\ t[2] = "n" /\ t[3] = "n" THEN CollapseNl(Tail(t))
    ELSE IF t = <<>> THEN <<>> ELSE <<Head(t)>> \o CollapseNl(Tail(t))
NormalizeText(t) == Value({Trim(c) : c \in {CollapseNl(b) : b \in {DropCr(t)}}})

\* normalizeText(sanitizeAssistant(last.content))
Cleaned(t) == Value({NormalizeText(x) : x \in {SanitizeAssistant(t)}})

RECURSIVE CountFences(_)
CountFences(t) ==
    IF t = <<>> THEN 0 ELSE (IF Head(t) = "F" THEN 1 ELSE 0) + CountFences(Tail(t))
HasOpenCodeFence(t) == CountFences(t) % 2 = 1

RECURSIVE Concat(_)
Concat(ps) == IF ps = <<>> THEN <<>> ELSE Head(ps) \o Concat(Tail(ps))

\* the delta records of one network chunk
Chunks == {<<>>} \cup {<<p>> : p \in Pieces}

NoMsg == [role |-> "none", content |-> NoText]
NoHistory ==
    [received |-> NoText, n |-> 0, doneCalls |-> 0, asstCalls |-> 0, settled |-> NoText,
     shown |-> NoText, stopAt |-> "none", failedAt |-> "none", surfaced |-> FALSE,
     storeFailed |-> FALSE, retried |-> FALSE, repairs |-> 0, updates |-> 0, title |-> NoText]

SessionInit ==
    /\ last = NoMsg
    /\ liveBuffer = NoText
    /\ flushTimer = FALSE
    /\ lastAssistantText = NoText
    /\ loading = FALSE
    /\ errorShown = FALSE
    /\ abortRef = NoCtrl
    /\ aborted = {}
    /\ currentChatId = 0
    /\ incognito = FALSE
    /\ nextChatId = 1
    /\ tpc = [t \in Turns |-> "new"]
    /\ tv = [t \in Turns |-> [incog |-> FALSE, chat |-> 0, finalText |-> NoText, tries |-> 0]]
    /\ attempt = [t \in Turns |-> 1]
    /\ ledger = <<>>
    /\ faults = 0
    /\ gh = [t \in Turns |-> NoHistory]

\* the statuses the storage API answers a call with (auth: 401; handlers:
\* 200, 404, 500); a request that never got an answer throws like a 500
CreateStatuses == {200, 401, 500}
StoreStatuses == {200, 401, 404, 500}

\* a negated retry condition
ShouldRetryNegated(status, retry) == status \notin {401, 403, 404} /\ retry
\* fetchWithAuth: (r.status === 401 || r.status === 403 || r.status === 404) && retry
ShouldRetry(status, retry) == status \in {401, 403, 404} /\ retry

\* stop() that aborts nothing
AbortNothing == NoCtrl
\* stop(): abortRef.current?.abort()
AbortTarget == abortRef

\* delta records delivered so far
RECURSIVE SumN(_)
SumN(t) == IF t = 0 THEN 0 ELSE gh[t].n + SumN(t - 1)
Delivered == SumN(NTurns)

\* while (tries < 1 && hasOpenCodeFence(lastAssistantTextRef.current))
RepairAgain(tries, text) == tries < 1 /\ HasOpenCodeFence(text)

\* a persistence guard that ignores incognito
PersistsAlways(t) == tv[t].chat # 0
\* if (!incognito && chatId)
Persists(t) == ~tv[t].incog /\ tv[t].chat # 0

\* an end of onDone that leaves loading set
FinishLoading(t) ==
    /\ tpc' = [tpc EXCEPT ![t] = "ended"]
    /\ loading' = loading
    /\ abortRef' = NoCtrl
\* the end of onDone: setLoading(false); abortRef.current = null
Finish(t) ==
    /\ tpc' = [tpc EXCEPT ![t] = "ended"]
    /\ loading' = FALSE
    /\ abortRef' = NoCtrl

\* onDone after the continuation try/catch: the first appendMessage is
\* awaited, or the handler runs to its end
Reconcile(t) ==
    IF Persists(t)
    THEN /\ tpc' = [tpc EXCEPT ![t] = "appendUser"]
         /\ UNCHANGED <<loading, abortRef>>
    ELSE Finish(t)

\* a catch that keeps the pending text
PrimaryRejectedKeepsBuffer(t, byAbort) ==
    /\ errorShown' = (errorShown \/ ~byAbort)
    /\ loading' = FALSE
    /\ abortRef' = NoCtrl
    /\ flushTimer' = FALSE
    /\ liveBuffer' = liveBuffer
    /\ tpc' = [tpc EXCEPT ![t] = "ended"]
\* sendChat's catch: the awaited chatWithOllama of the turn rejected
PrimaryRejected(t, byAbort) ==
    /\ errorShown' = (errorShown \/ ~byAbort)
    /\ loading' = FALSE
    /\ abortRef' = NoCtrl
    /\ flushTimer' = FALSE
    /\ liveBuffer' = NoText
    /\ tpc' = [tpc EXCEPT ![t] = "ended"]

\* a submission that never creates a conversation
NeedsChatNever == FALSE
\* if (!incognito && !chatId)
NeedsChat == ~incognito /\ currentChatId = 0

\* sendChat up to its first await (createChat, or the fetch of
\* chatWithOllama); the Enter key handler calls it whatever loading is
Submit(t) ==
    /\ tpc[t] = "new"
    /\ \A o \in Turns : o < t => tpc[o] # "new"
    /\ errorShown' = FALSE
    /\ last' = [role |-> "Assistent", content |-> NoText]
    /\ loading' = TRUE
    /\ abortRef' = <<t, 1>>
    /\ tv' = [tv EXCEPT ![t] = [incog |-> incognito, chat |-> currentChatId,
                                 finalText |-> NoText, tries |-> 0]]
    /\ tpc' = [tpc EXCEPT ![t] = IF NeedsChat THEN "creating" ELSE "primary"]
    /\ UNCHANGED <<liveBuffer, flushTimer, lastAssistantText, aborted, currentChatId,
                   incognito, nextChatId, attempt, ledger, faults, gh>>
    /\ UNCHANGED notSession

\* the incognito checkbox; sendChat is its only reader in a session, so a
\* toggle after the last submission of the run is left out
ToggleIncognito ==
    /\ \E t \in Turns : tpc[t] = "new"
    /\ incognito' = ~incognito
    /\ UNCHANGED <<last, liveBuffer, flushTimer, lastAssistantText, loading, errorShown,
                   abortRef, aborted, currentChatId, nextChatId, tpc, tv, attempt, ledger,
                   faults, gh>>
    /\ UNCHANGED notSession

\* a catch of createChat that leaves loading set
CreateFailedBusy(t) ==
    /\ errorShown' = TRUE
    /\ loading' = loading
    /\ tpc' = [tpc EXCEPT ![t] = "ended"]
\* catch (e) { setError(...); setLoading(false); return; }
CreateFailed(t) ==
    /\ errorShown' = TRUE
    /\ loading' = FALSE
    /\ tpc' = [tpc EXCEPT ![t] = "ended"]

\* await createChat(...): one attempt of fetchWithAuth answered with status
\* st; reg: the re-registration before the retry succeeds
CreateChatAttempt(t, st, reg) ==
    /\ tpc[t] = "creating"
    /\ st = 200 \/ faults < MaxFaults
    /\ faults' = IF st = 200 THEN faults ELSE faults + 1
    /\ IF ShouldRetry(st, attempt[t] = 1) /\ reg
       THEN /\ attempt' = [attempt EXCEPT ![t] = 2]
            /\ UNCHANGED <<liveBuffer, flushTimer, loading, errorShown, abortRef,
                           currentChatId, nextChatId, tpc, tv, gh>>
       ELSE IF st = 200
       THEN /\ attempt' = [attempt EXCEPT ![t] = 1]
            /\ tv' = [tv EXCEPT ![t].chat = nextChatId]
            /\ currentChatId' = nextChatId
            /\ nextChatId' = nextChatId + 1
            /\ IF <<t, 1>> \in aborted
               THEN /\ PrimaryRejected(t, TRUE)
                    /\ UNCHANGED gh
               ELSE /\ tpc' = [tpc EXCEPT ![t] = "primary"]
                    /\ UNCHANGED <<liveBuffer, flushTimer, loading, errorShown, abortRef, gh>>
       ELSE /\ attempt' = [attempt EXCEPT ![t] = 1]
            /\ CreateFailed(t)
            /\ gh' = [gh EXCEPT ![t].surfaced = TRUE, ![t].storeFailed = TRUE]
            /\ UNCHANGED <<liveBuffer, flushTimer, abortRef, currentChatId, nextChatId, tv>>
    /\ UNCHANGED <<last, lastAssistantText, aborted, incognito, ledger>>
    /\ UNCHANGED notSession

\* the interval callback of startFlush, with text pending
FlushTick ==
    /\ flushTimer
    /\ liveBuffer # NoText
    /\ liveBuffer' = NoText
    /\ LET merged == IF last.role # "Assistent" THEN liveBuffer ELSE last.content \o liveBuffer
       IN  /\ lastAssistantText' = merged
           /\ last' = [role |-> "Assistent", content |-> merged]
    /\ UNCHANGED <<flushTimer, loading, errorShown, abortRef, aborted, currentChatId,
                   incognito, nextChatId, tpc, tv, attempt, ledger, faults, gh>>
    /\ UNCHANGED notSession

\* chatWithOllama on one chunk of the stream: onDelta for each fragment
\* (liveBufferRef.current += piece; startFlush()), then, with term, the
\* record with done set or the end of the stream: onDone up to its first
\* await.  The updater passed to setMessages sets lastAssistantTextRef when
\* React runs it: at once (eager), or in the render that follows the
\* handler's synchronous part, after the while condition has read the ref.
DeliverChunk(t, ps, term, eager) ==
    /\ tpc[t] \in {"primary", "cont"}
    /\ ps # <<>> \/ term
    /\ Delivered + Len(ps) <= MaxDeltas
    /\ liveBuffer' = liveBuffer \o Concat(ps)
    /\ IF ~term
       THEN /\ flushTimer' = (flushTimer \/ ps # <<>>)
            /\ gh' = [gh EXCEPT ![t].n = @ + Len(ps),
                                ![t].received = IF tpc[t] = "primary" THEN @ \o Concat(ps) ELSE @]
            /\ UNCHANGED <<last, lastAssistantText, loading, abortRef, tpc, tv>>
       ELSE LET cleaned == Cleaned(last.content)
                ref == IF last.role = "Assistent" THEN cleaned ELSE lastAssistantText
                seen == IF eager THEN ref ELSE lastAssistantText
                tries == IF tpc[t] = "cont" THEN tv[t].tries + 1 ELSE tv[t].tries
                again == RepairAgain(tries, seen)
            IN  /\ flushTimer' = FALSE
                /\ last' = IF last.role = "Assistent" THEN [last EXCEPT !.content = cleaned] ELSE last
                /\ lastAssistantText' = ref
                /\ tv' = [tv EXCEPT ![t].tries = tries]
                /\ gh' = [gh EXCEPT
                      ![t].n = @ + Len(ps),
                      ![t].doneCalls = @ + 1,
                      ![t].repairs = IF again THEN @ + 1 ELSE @,
                      ![t].received = IF tpc[t] = "primary" THEN @ \o Concat(ps) ELSE @,
                      ![t].settled = IF tpc[t] = "primary" THEN ref ELSE @,
                      ![t].shown = IF tpc[t] = "primary" THEN last'.content ELSE @]
                /\ IF again
                   THEN /\ abortRef' = <<t, 2>>
                        /\ tpc' = [tpc EXCEPT ![t] = "cont"]
                        /\ UNCHANGED loading
                   ELSE Reconcile(t)
    /\ UNCHANGED <<errorShown, aborted, currentChatId, incognito, nextChatId, attempt,
                   ledger, faults>>
    /\ UNCHANGED notSession

\* the fetch or a read of the stream rejects with a transport error
StreamError(t) ==
    /\ tpc[t] \in {"primary", "cont"}
    /\ faults < MaxFaults
    /\ faults' = faults + 1
    /\ IF tpc[t] = "primary"
       THEN /\ PrimaryRejected(t, FALSE)
            /\ gh' = [gh EXCEPT ![t].failedAt = "primary", ![t].surfaced = TRUE]
       ELSE /\ Reconcile(t)
            /\ gh' = [gh EXCEPT ![t].failedAt = "cont"]
            /\ UNCHANGED <<errorShown, flushTimer, liveBuffer>>
    /\ UNCHANGED <<last, lastAssistantText, aborted, currentChatId, incognito, nextChatId,
                   tv, attempt, ledger>>
    /\ UNCHANGED notSession

\* the Stop button (enabled while loading): abortRef.current?.abort();
\* stopFlush().  The request of the aborted controller rejects with
\* AbortError before any other event is handled.
Stop ==
    /\ loading
    /\ flushTimer' = FALSE
    /\ LET t == abortRef[1]
           hit == AbortTarget = abortRef /\ abortRef # NoCtrl
           at == IF abortRef = NoCtrl THEN "none"
                 ELSE IF abortRef[2] = 1 /\ tpc[t] \in {"creating", "primary"} THEN tpc[t]
                 ELSE IF abortRef[2] = 2 /\ tpc[t] = "cont" THEN "cont"
                 ELSE "none"
       IN  /\ gh' = IF at = "none" THEN gh ELSE [gh EXCEPT ![t].stopAt = at]
           /\ aborted' = IF hit /\ at = "creating" THEN aborted \cup {abortRef} ELSE aborted
           /\ IF hit /\ at = "primary" THEN PrimaryRejected(t, TRUE)
              ELSE IF hit /\ at = "cont"
              THEN /\ Reconcile(t)
                   /\ UNCHANGED <<errorShown, liveBuffer>>
              ELSE UNCHANGED <<errorShown, liveBuffer, loading, abortRef, tpc>>
    /\ UNCHANGED <<last, lastAssistantText, currentChatId, incognito, nextChatId, tv,
                   attempt, ledger, faults>>
    /\ UNCHANGED notSession

\* .slice(0, 60)
TitleLen == 60
\* the fallback title 'Chat'
ChatTitle == <<"C", "h", "a", "t">>
\* userTextRaw = prompt.trim() of the turns of the run: the first is
\* submitted with a document attached and no text, the others with a text of
\* more than TitleLen characters
Prompt(t) == IF t = 1 THEN NoText ELSE [i \in 1..(TitleLen + 1) |-> "a"]
\* (userTextRaw || 'Chat').slice(0, 60)
Title(u) ==
    LET v == IF u = NoText THEN ChatTitle ELSE u
    IN  SubSeq(v, 1, IF Len(v) < TitleLen THEN Len(v) ELSE TitleLen)

\* a persistence that updates the metadata right after the user append
NextCallSkipping(c) ==
    CASE c = "appendUser" -> "updateChat"
      [] c = "updateChat" -> "deleteDraft"
      [] OTHER -> "ended"
\* the storage call onDone awaits after call c succeeded
NextCall(c) ==
    CASE c = "appendUser" -> "appendAsst"
      [] c = "appendAsst" -> "updateChat"
      [] c = "updateChat" -> "deleteDraft"
      [] OTHER -> "ended"

\* onDone's persistence: one attempt of fetchWithAuth for the awaited call,
\* answered with status st; the storage API has committed the append
\* exactly when it answers 200.  A call that throws ends in catch {}.
StoreAttempt(t, st, reg) ==
    /\ tpc[t] \in {"appendUser", "appendAsst", "updateChat", "deleteDraft"}
    /\ st \in (IF tpc[t] = "deleteDraft" THEN CreateStatuses ELSE StoreStatuses)
    /\ st = 200 \/ faults < MaxFaults
    /\ faults' = IF st = 200 THEN faults ELSE faults + 1
    /\ ledger' =
         IF st = 200 /\ tpc[t] \in {"appendUser", "appendAsst"}
         THEN Append(ledger, [turn |-> t, chat |-> tv[t].chat,
                              role |-> IF tpc[t] = "appendUser" THEN "user" ELSE "assistant",
                              content |-> IF tpc[t] = "appendUser" THEN NoText ELSE tv[t].finalText])
         ELSE ledger
    /\ IF ShouldRetry(st, attempt[t] = 1) /\ reg
       THEN /\ attempt' = [attempt EXCEPT ![t] = 2]
            /\ gh' = [gh EXCEPT ![t].retried = TRUE]
            /\ UNCHANGED <<loading, abortRef, tpc, tv>>
       ELSE /\ attempt' = [attempt EXCEPT ![t] = 1]
            /\ IF st = 200 /\ NextCall(tpc[t]) # "ended"
               THEN /\ tpc' = [tpc EXCEPT ![t] = NextCall(tpc[t])]
                    /\ tv' = [tv EXCEPT ![t].finalText =
                                 IF tpc[t] = "appendUser" THEN lastAssistantText ELSE @]
                    /\ gh' = [gh EXCEPT
                          ![t].asstCalls = IF tpc[t] = "appendUser" THEN @ + 1 ELSE @,
                          ![t].updates = IF tpc[t] = "updateChat" THEN @ + 1 ELSE @,
                          ![t].title = IF tpc[t] = "updateChat" THEN Title(Prompt(t)) ELSE @]
                    /\ UNCHANGED <<loading, abortRef>>
               ELSE /\ Finish(t)
                    /\ gh' = [gh EXCEPT ![t].storeFailed = (@ \/ st # 200)]
                    /\ UNCHANGED tv
    /\ UNCHANGED <<last, liveBuffer, flushTimer, lastAssistantText, errorShown, aborted,
                   currentChatId, incognito, nextChatId>>
    /\ UNCHANGED notSession

\* the backend or storage call turn t awaits returns or raises
Returns(t) ==
    \/ \E st \in CreateStatuses, reg \in BOOLEAN : CreateChatAttempt(t, st, reg)
    \/ \E ps \in Chunks, eager \in BOOLEAN : DeliverChunk(t, ps, TRUE, eager)
    \/ StreamError(t)
    \/ \E st \in StoreStatuses, reg \in BOOLEAN : StoreAttempt(t, st, reg)

SessionNext ==
    \/ \E t \in Turns : Submit(t)
    \/ ToggleIncognito
    \/ \E t \in Turns, st \in CreateStatuses, reg \in BOOLEAN : CreateChatAttempt(t, st, reg)
    \/ FlushTick
    \/ \E t \in Turns, ps \in Chunks, term \in BOOLEAN, eager \in BOOLEAN :
          DeliverChunk(t, ps, term, eager)
    \/ \E t \in Turns : StreamError(t)
    \/ Stop
    \/ \E t \in Turns, st \in StoreStatuses, reg \in BOOLEAN : StoreAttempt(t, st, reg)

\* the steps of the runs that deliver at most MaxLiveDeltas fragments
LiveNext ==
    \/ \E t \in Turns : Submit(t)
    \/ ToggleIncognito
    \/ \E t \in Turns, st \in CreateStatuses, reg \in BOOLEAN : CreateChatAttempt(t, st, reg)
    \/ FlushTick
    \/ \E t \in Turns, ps \in Chunks, term \in BOOLEAN, eager \in BOOLEAN :
          /\ Delivered + Len(ps) <= MaxLiveDeltas
          /\ DeliverChunk(t, ps, term, eager)
    \/ \E t \in Turns : StreamError(t)
    \/ Stop
    \/ \E t \in Turns, st \in StoreStatuses, reg \in BOOLEAN : StoreAttempt(t, st, reg)

----------------------------------------------------------------------------
(* Part III: the stream reader chatWithOllama (src/unnamed/part_001).      *)
(*                                                                         *)
(* The response body is a sequence of bytes: "n" a newline, "r" a carriage *)
(* return, the others the bytes of a line's JSON text.  A line is a record *)
(* when it is "{", content bytes "a", and then "!" if the record has done  *)
(* set; "N" is the JSON text null; any other line is not JSON.             *)

\* a record with content, a record with done set, a record with both, a
\* record before CR LF, a truncated record, null, an empty line
Lines == {<<"{", "a">>, <<"{", "!">>, <<"{", "a", "!">>, <<"{", "a", "r">>, <<"{">>, <<"N">>, <<>>}

\* the bodies of up to k lines, each ended by a newline
RECURSIVE Terminated(_)
Terminated(k) ==
    IF k = 0 THEN {<<>>}
    ELSE LET T == Terminated(k - 1) IN T \cup {l \o <<"n">> \o b : l \in Lines, b \in T}
\* the last line of a body may lack its newline
Bodies ==
    Terminated(MaxLines) \cup {b \o l : b \in Terminated(MaxLines - 1), l \in Lines \ {<<>>}}

\* buf.split('\n')
RECURSIVE SplitNl(_)
SplitNl(t) ==
    IF IndexOfNl(t) = 0 THEN <<t>>
    ELSE <<SubSeq(t, 1, IndexOfNl(t) - 1)>> \o SplitNl(SubSeq(t, IndexOfNl(t) + 1, Len(t)))

\* obj.done
IsDone(s) == s # <<>> /\ s[Len(s)] = "!"
\* obj.message?.content ?? obj.response ?? ''
Content(s) == IF IsDone(s) THEN SubSeq(s, 2, Len(s) - 1) ELSE SubSeq(s, 2, Len(s))
\* JSON.parse(s) returns an object
IsRecord(s) ==
    /\ Len(s) >= 2 /\ s[1] = "{"
    /\ \A i \in 1..Len(Content(s)) : Content(s)[i] = "a"
\* JSON.parse(s) returns null
IsNull(s) == s = <<"N">>

Delta(piece) == [kind |-> "delta", text |-> piece]
Done(a) == [kind |-> "done", text |-> a]

\* if (piece) { acc += piece; onDelta?.(piece, acc); }
Emit(piece, d) ==
    IF piece = <<>> THEN d
    ELSE [d EXCEPT !.acc = @ \o piece, !.events = Append(@, Delta(piece))]

\* a reader that goes on after the record with done set
AfterDoneContinue == "reading"
\* if (obj.done) { onDone?.(acc); return acc; }
AfterDone == "returned"

\* for (const line of lines) { ... }; d = [acc, events, pc]
RECURSIVE LineLoop(_, _)
LineLoop(lines, d) ==
    IF lines = <<>> \/ d.pc # "reading" THEN d
    ELSE LET s == Trim(Head(lines))
         IN  IF s = <<>> THEN LineLoop(Tail(lines), d)
             ELSE IF IsNull(s) THEN [d EXCEPT !.pc = "raised"]
             ELSE IF ~IsRecord(s) THEN LineLoop(Tail(lines), d)
             ELSE LET d1 == Emit(Content(s), d)
                  IN  IF IsDone(s)
                      THEN LineLoop(Tail(lines),
                                    [d1 EXCEPT !.events = Append(@, Done(d1.acc)), !.pc = AfterDone])
                      ELSE LineLoop(Tail(lines), d1)

\* a reader that drops the trailing partial line
RetainedNothing(lines) == <<>>
\* buf = lines.pop() || ''
Retained(lines) == lines[Len(lines)]

\* one round of the read loop on the chunk value
OnChunk(value, b, d) ==
    LET lines == SplitNl(b \o value)
    IN  [buf |-> Retained(lines), d |-> LineLoop(SubSeq(lines, 1, Len(lines) - 1), d)]

\* an end of stream that drops the unterminated last line unread
TailPieceDropped(s) == <<>>
\* try { obj = JSON.parse(buf.trim()); piece = ... } catch {}
TailPiece(s) == IF IsRecord(s) THEN Content(s) ELSE <<>>

\* after the loop: the unterminated last line, then onDone
AtEnd(b, d) ==
    LET d1 == Emit(TailPiece(Trim(b)), d)
    IN  [d1 EXCEPT !.events = Append(@, Done(d1.acc)), !.pc = "returned"]

Fresh == [acc |-> <<>>, events |-> <<>>, pc |-> "reading"]

\* the run of chatWithOllama on a body that arrives as one chunk
Unsplit(w) ==
    LET r == OnChunk(w, <<>>, Fresh)
    IN  IF r.d.pc = "reading" THEN AtEnd(r.buf, r.d) ELSE r.d

DecoderOff ==
    /\ wire = <<>> /\ whole = <<>> /\ buf = <<>> /\ acc = <<>> /\ events = <<>>
    /\ cut = FALSE
    /\ dpc = "off"

\* chatWithOllama up to its first reader.read()
DecoderInit ==
    /\ whole \in Bodies
    /\ wire = whole
    /\ buf = <<>> /\ acc = <<>> /\ events = <<>>
    /\ cut = FALSE
    /\ dpc = "reading"

\* reader.read() resolves with the next k bytes of the body
Read(k) ==
    /\ dpc = "reading"
    /\ k \in 1..Len(wire)
    /\ LET r == OnChunk(SubSeq(wire, 1, k), buf, [acc |-> acc, events |-> events, pc |-> dpc])
       IN  /\ buf' = r.buf
           /\ acc' = r.d.acc
           /\ events' = r.d.events
           /\ dpc' = r.d.pc
           /\ cut' = (cut \/ (r.d.pc = "reading" /\ r.buf = <<"{">> /\ k < Len(wire)
                                  /\ wire[k + 1] = "a"))
    /\ wire' = SubSeq(wire, k + 1, Len(wire))
    /\ UNCHANGED whole
    /\ UNCHANGED notDecoder

\* reader.read() resolves with done at the end of the body
EndOfStream ==
    /\ dpc = "reading"
    /\ wire = <<>>
    /\ LET d == AtEnd(buf, [acc |-> acc, events |-> events, pc |-> dpc])
       IN  /\ acc' = d.acc
           /\ events' = d.events
           /\ dpc' = d.pc
    /\ UNCHANGED <<wire, whole, buf, cut>>
    /\ UNCHANGED notDecoder

\* reader.read() rejects
ReadRejects ==
    /\ dpc = "reading"
    /\ dpc' = "failed"
    /\ UNCHANGED <<wire, whole, buf, acc, events, cut>>
    /\ UNCHANGED notDecoder

DecoderNext ==
    \/ \E k \in 1..Len(wire) : Read(k)
    \/ EndOfStream
    \/ ReadRejects

----------------------------------------------------------------------------
(* Part IV: the normalization pass of the session,                         *)
(* normalizeText(sanitizeAssistant(t)), applied to a text again and again. *)

\* the characters of the texts: a letter, a newline, a carriage return, a
\* meta prefix
NormChars == {"a", "n", "r", "M"}

\* the texts of up to k characters
RECURSIVE Texts(_)
Texts(k) ==
    IF k = 0 THEN {<<>>}
    ELSE LET T == Texts(k - 1) IN T \cup {<<ch>> \o t : ch \in NormChars, t \in {u \in T : Len(u) = k - 1}}

NormInit ==
    /\ nIn \in Texts(MaxText)
    /\ nOut = <<>>

\* one more pass over the result of the last
Normalize ==
    /\ Len(nOut) < MaxPasses
    /\ nOut' = Append(nOut, Cleaned(IF nOut = <<>> THEN nIn ELSE nOut[Len(nOut)]))
    /\ UNCHANGED nIn
    /\ UNCHANGED notNorm

NormNext == Normalize

----------------------------------------------------------------------------
(* Part V: the storage client (lib/api.js): fetchWithAuth and              *)
(* ensureApiKeyInteractive.  The calls of a client run one after the       *)
(* other; a request is answered with a status, or its fetch rejects.       *)

\* the statuses the API answers a request with
ApiStatuses == {200, 401, 403, 404, 500}
\* the statuses /auth/register answers with: created, name taken, failure
RegisterStatuses == {200, 409, 500}

ApiRequest(key) == [path |-> "api", key |-> key]
RegisterRequest == [path |-> "register", key |-> 0]

AuthOff ==
    /\ apiKey = 0 /\ identities = 0 /\ fpc = "off" /\ retryArg = FALSE
    /\ sent = <<>> /\ answers = <<>> /\ result = 0 /\ provisions = 0 /\ calls = 0

\* the client with or without stored credentials, no call made
AuthInit ==
    /\ apiKey \in {0, 1}
    /\ identities = 1
    /\ fpc = "idle"
    /\ retryArg = FALSE
    /\ sent = <<>> /\ answers = <<>> /\ result = 0 /\ provisions = 0
    /\ calls = 0

\* a reissue that may retry again
ReissueRetryKept == TRUE
\* return fetchWithAuth(path, init, false)
ReissueRetry == FALSE

\* fetchWithAuth(path, init) up to its fetch: the request carries
\* X-API-Key: getKey()
Call ==
    /\ fpc \in {"idle", "returned", "raised"}
    /\ calls < NCalls
    /\ calls' = calls + 1
    /\ retryArg' = TRUE
    /\ sent' = <<ApiRequest(apiKey)>>
    /\ answers' = <<>>
    /\ result' = 0
    /\ provisions' = 0
    /\ fpc' = "fetch"
    /\ UNCHANGED <<apiKey, identities>>
    /\ UNCHANGED notAuth

\* the request is answered with status st: the response is returned, or
\* clearAuth() and ensureApiKeyInteractive() up to its fetch of
\* /auth/register (the key was just removed, so getKey() is empty)
Answer(st) ==
    /\ fpc = "fetch"
    /\ answers' = Append(answers, st)
    /\ IF ShouldRetry(st, retryArg)
       THEN /\ apiKey' = 0
            /\ provisions' = provisions + 1
            /\ sent' = Append(sent, RegisterRequest)
            /\ fpc' = "register"
            /\ UNCHANGED result
       ELSE /\ result' = st
            /\ fpc' = "returned"
            /\ UNCHANGED <<apiKey, provisions, sent>>
    /\ UNCHANGED <<identities, retryArg, calls>>
    /\ UNCHANGED notAuth

\* /auth/register answers with status st: setAuth(j) and the reissue of the
\* request, a second registration after 409, or throw register_failed
RegisterAnswer(st) ==
    /\ fpc \in {"register", "register2"}
    /\ IF st = 409 /\ fpc = "register"
       THEN /\ sent' = Append(sent, RegisterRequest)
            /\ fpc' = "register2"
            /\ UNCHANGED <<apiKey, identities, retryArg>>
       ELSE IF st = 200
       THEN /\ identities' = identities + 1
            /\ apiKey' = identities + 1
            /\ retryArg' = ReissueRetry
            /\ sent' = Append(sent, ApiRequest(identities + 1))
            /\ fpc' = "fetch"
       ELSE /\ fpc' = "raised"
            /\ UNCHANGED <<apiKey, identities, retryArg, sent>>
    /\ UNCHANGED <<answers, result, provisions, calls>>
    /\ UNCHANGED notAuth

\* the fetch in flight rejects (no response): the call raises
FetchRejects ==
    /\ fpc \in {"fetch", "register", "register2"}
    /\ fpc' = "raised"
    /\ UNCHANGED <<apiKey, identities, retryArg, sent, answers, result, provisions, calls>>
    /\ UNCHANGED notAuth

AuthNext ==
    \/ Call
    \/ \E st \in ApiStatuses : Answer(st)
    \/ \E st \in RegisterStatuses : RegisterAnswer(st)
    \/ FetchRejects

----------------------------------------------------------------------------
(* Specifications *)

vars == <<ledgerVars, sessionVars, decoderVars, normVars, authVars>>

NormOff == nIn = <<>> /\ nOut = <<>>

Init == LedgerInit /\ SessionInit /\ DecoderOff /\ NormOff /\ AuthOff

InitDecoder == LedgerInit /\ SessionInit /\ DecoderInit /\ NormOff /\ AuthOff

InitNorm == LedgerInit /\ SessionInit /\ DecoderOff /\ NormInit /\ AuthOff

InitAuth == LedgerInit /\ SessionInit /\ DecoderOff /\ NormOff /\ AuthInit

\* concurrent requests to the append endpoint
SpecLedger == Init /\ [][LedgerNext]_vars

\* one UI session against the inference backend and the storage API
SpecSession == Init /\ [][SessionNext]_vars

\* the session under the assumption that every call it awaits returns,
\* in the runs that deliver at most MaxLiveDeltas fragments
SpecSessionLive ==
    /\ Init
    /\ [][LiveNext]_vars
    /\ \A t \in Turns : WF_vars(Returns(t))

\* one run of chatWithOllama on a response body, under every chunking
SpecDecoder == InitDecoder /\ [][DecoderNext]_vars

\* the normalization pass applied repeatedly to one text
SpecNorm == InitNorm /\ [][NormNext]_vars

\* API calls of the storage client, one after the other
SpecAuth == InitAuth /\ [][AuthNext]_vars

----------------------------------------------------------------------------
(* Part I: properties of the ledger *)

Committed(c) == {m \in messages : m.chat_id = c /\ m.trx = 0}
InFlight(r) == pc[r] \in {"locked", "inserted", "updated"}
Posted(r) == pc[r] # "none"
LastCommittedTs(c) ==
    LET S == {m.created_at : m \in Committed(c)}
    IN  IF S = {} THEN 0 ELSE CHOOSE i \in S : \A j \in S : j <= i

\* C1: in every reachable state, for every conversation, the idx values of
\* its stored messages are exactly 0..n-1 for n stored messages: no gap and
\* no duplicate, under every interleaving of concurrent appends, failed and
\* rolled-back ones included.
C1_OrderingInvariant ==
    \A c \in ChatIds :
        /\ {m.idx : m \in Committed(c)} = 0..(Cardinality(Committed(c)) - 1)
        /\ \A m \in messages, n \in messages : Key(m) = Key(n) => m = n

\* C1 witness: a conversation holds two committed messages after a request
\* to it was rolled back with its row already inserted.
C1_Witness ==
    \E c \in ChatIds, r \in Reqs :
        /\ Cardinality(Committed(c)) >= 2
        /\ rq[r].chat = c /\ cause[r] \in {"inserted", "updated"}

\* C2: no two in-flight append transactions on one conversation hold the
\* same computed nextIdx: the second one's read of MAX(idx) returns only
\* after the first has committed or rolled back, also for a conversation
\* with no messages yet.
C2_ExclusiveNextIdx ==
    \A r \in Reqs, o \in Reqs :
        (r # o /\ InFlight(r) /\ InFlight(o) /\ rq[r].chat = rq[o].chat)
            => nextIdx[r] # nextIdx[o]

\* C3: concurrent appends to the same existing, owned conversation are not
\* answered with an error because of the race (duplicate key, deadlock
\* victim).
C3_NoRaceError ==
    (\A r \in Reqs, o \in Reqs :
        (Posted(r) /\ Posted(o)) => [rq[r] EXCEPT !.role = ""] = [rq[o] EXCEPT !.role = ""])
        => \A r \in Reqs : cause[r] \notin {"deadlock", "dup"}

\* C4: an in-flight append on one conversation never makes an append on a
\* different conversation wait (nor, by a wait cycle, abort), also when
\* that conversation has no messages yet.
C4_NoCrossChatWait ==
    \A r \in Reqs, o \in Reqs : WaitsFor(r, o) => rq[r].chat = rq[o].chat

C31_StoredRoles == \A m \in messages : m.trx = 0 => m.role \in {"user", "assistant"}

Writing(c) == \E o \in Reqs : undo[o].chat = c \/ \E m \in messages : m.trx = o /\ m.chat_id = c

\* conversation c exists and belongs to user u
Owns(u, c) == c \in DOMAIN chats /\ chats[c].user_id = u

\* C17: the step in which an append request finds that its conversation
\* does not exist or belongs to another user answers 404 and leaves both
\* tables as they were; such a request never gets past the ownership check
\* and never has a row stored.
C17_NotFoundChangesNothing ==
    [][\A r \in Reqs :
          (rq[r].kind = "append" /\ pc[r] = "begun" /\ pc'[r] # "begun"
             /\ ~Owns(rq[r].user, rq[r].chat) /\ cause'[r] # "begun") =>
              /\ pc'[r] = "done" /\ resp'[r] = 404
              /\ messages' = messages /\ chats' = chats]_vars

\* C17 witness: appends to another user's conversation and to an id that
\* names no conversation were answered 404 with a message stored elsewhere.
C17_Witness ==
    /\ \E r \in Reqs : resp[r] = 404 /\ rq[r].kind = "append" /\ rq[r].chat = MissingChat
    /\ \E r \in Reqs :
          /\ resp[r] = 404 /\ rq[r].kind = "append"
          /\ rq[r].chat \in DOMAIN chats /\ chats[rq[r].chat].user_id # rq[r].user
    /\ messages # {}

\* C18: in every state in which no transaction is writing a conversation,
\* its updated_at is the created_at of its last committed message (and its
\* creation value while it has none): a committed append has bumped it to
\* exactly the message's timestamp, and no append has bumped it without
\* storing its message.  (Appends and deletes are the writers modelled.)
C18_UpdatedAtIsLastMessage ==
    \A c \in DOMAIN chats :
        ~Writing(c) =>
            /\ chats[c].updated_at = LastCommittedTs(c)
            /\ \A m \in Committed(c) :
                  m.idx = Cardinality(Committed(c)) - 1 => m.created_at = chats[c].updated_at

\* C18 witness: a conversation holds two committed messages, no transaction
\* is writing it, and a later timestamp was handed out to another request.
C18_Witness ==
    \E c \in DOMAIN chats :
        /\ Cardinality(Committed(c)) >= 2 /\ ~Writing(c)
        /\ clock > chats[c].updated_at

\* C19: every stored message row, committed or not, belongs to an existing
\* conversation; a conversation whose delete was answered ok is gone; a
\* delete of an id that names no conversation of the user is answered 404,
\* and the step that answers it changes neither table.
C19_DeleteCascades ==
    /\ [](\A m \in messages : m.chat_id \in DOMAIN chats)
    /\ [](\A r \in Reqs :
            /\ (rq[r].kind = "delete" /\ resp[r] = 200) => rq[r].chat \notin DOMAIN chats
            /\ (rq[r].kind = "delete" /\ cause[r] = "notfound") => resp[r] = 404)
    /\ [][\A r \in Reqs :
            (pc[r] = "dstart" /\ ~Owns(rq[r].user, rq[r].chat) /\ pc'[r] # "dstart"
               /\ cause'[r] # "dstart") =>
                (resp'[r] = 404 /\ messages' = messages /\ chats' = chats)]_vars

\* C19 witness: a conversation with a committed message was deleted while
\* an append to it was in flight, and that append failed on the missing
\* parent row.
C19_Witness ==
    \E d \in Reqs, r \in Reqs, o \in Reqs :
        /\ rq[d].kind = "delete" /\ resp[d] = 200
        /\ rq[r].kind = "append" /\ rq[r].chat = rq[d].chat /\ resp[r] = 200
        /\ rq[o].kind = "append" /\ rq[o].chat = rq[d].chat /\ cause[o] = "fk"

----------------------------------------------------------------------------
(* Part II: properties of the session *)

\* the appendMessage calls of turn t with the given role that were committed
Appended(t, role) == {i \in DOMAIN ledger : ledger[i].turn = t /\ ledger[i].role = role}

\* C6: a turn that stop() cancelled during its primary stream, after delta
\* fragments of that stream had been received and before its terminal
\* signal, never issues appendMessage with role assistant, and its onDone
\* never runs.
C6_CancelPrimary ==
    \A t \in Turns :
        (gh[t].stopAt = "primary" /\ gh[t].received # NoText) =>
            /\ gh[t].doneCalls = 0
            /\ gh[t].asstCalls = 0
            /\ Appended(t, "assistant") = {}
            /\ tpc[t] = "ended"

\* C6 witness: a persisting turn was cancelled in its primary stream with
\* fragments received, some of them already flushed to the view.
C6_Witness ==
    \E t \in Turns :
        /\ gh[t].stopAt = "primary" /\ gh[t].received # NoText
        /\ Persists(t) /\ lastAssistantText # NoText

\* C7: a turn whose in-flight generation request stop() aborted, be it the
\* primary stream (or the request about to open it) or the continuation
\* stream started inside onDone, issues no appendMessage with role assistant.
C7_AbortedNeverAppends ==
    \A t \in Turns : gh[t].stopAt # "none" => gh[t].asstCalls = 0

\* C8: a turn one of whose generation streams ended with a transport error
\* has its error surfaced, and no assistant message is appended for it that
\* holds output of the failed stream: none at all when the primary stream
\* failed, none but the settled primary text when the continuation failed.
C8_FailedStream ==
    \A t \in Turns :
        gh[t].failedAt # "none" =>
            /\ gh[t].surfaced
            /\ (gh[t].failedAt = "primary" => Appended(t, "assistant") = {})
            /\ \A i \in Appended(t, "assistant") : ledger[i].content = gh[t].settled

\* C9: once the primary stream of a turn completed, the settled assistant
\* text (shown, and held in lastAssistantTextRef) is the normalization of the
\* concatenation of all delta fragments of that stream.
C9_FinalValueApplied ==
    \A t \in Turns :
        gh[t].doneCalls >= 1 =>
            /\ gh[t].settled = Cleaned(gh[t].received)
            /\ gh[t].shown = Cleaned(gh[t].received)

\* C10: at most one user and at most one assistant message is ever appended
\* for a turn, each to the turn's conversation; a non-ephemeral turn whose
\* stream completed and all of whose storage calls succeeded has appended
\* exactly one of each, the user message first.
C10_ExactlyOnce ==
    \A t \in Turns :
        /\ Cardinality(Appended(t, "user")) <= 1
        /\ Cardinality(Appended(t, "assistant")) <= 1
        /\ \A i \in DOMAIN ledger : ledger[i].turn = t => ledger[i].chat = tv[t].chat
        /\ (tpc[t] = "ended" /\ Persists(t) /\ gh[t].doneCalls >= 1 /\ ~gh[t].storeFailed) =>
              \E i \in Appended(t, "user"), j \in Appended(t, "assistant") : i < j

\* C10 witness: every turn of the run completed and stored both of its
\* messages in one conversation, the second turn's first call after a retry.
C10_Witness ==
    /\ \A t \in Turns :
          /\ tpc[t] = "ended" /\ Persists(t) /\ gh[t].doneCalls >= 1 /\ ~gh[t].storeFailed
          /\ tv[t].chat = tv[1].chat
    /\ Len(ledger) = 2 * NTurns
    /\ \E t \in Turns : gh[t].retried

\* C14: a turn issues at most one repair request; it has issued one
\* exactly when the normalized text its primary stream settled to has an odd
\* number of fence markers (none before the primary stream completed), a
\* text still open after the repair included; no error is surfaced for it.
C14_ContinuationBound ==
    \A t \in Turns :
        /\ gh[t].repairs <= 1
        /\ gh[t].doneCalls = 0 => gh[t].repairs = 0
        /\ gh[t].doneCalls >= 1 => (gh[t].repairs = 1 <=> HasOpenCodeFence(gh[t].settled))
        /\ gh[t].repairs >= 1 => ~gh[t].surfaced

\* the awaits of a turn at which a storage call is in flight
StorageCalls == {"creating", "appendUser", "appendAsst", "updateChat", "deleteDraft"}

\* C15: a turn submitted with incognito set never has a storage call
\* (createChat, appendMessage, updateChat, deleteDraft) in flight and never
\* gets anything appended, with or without a current conversation id and
\* however its stream ends.
C15_EphemeralNotPersisted ==
    \A t \in Turns :
        tv[t].incog =>
            /\ tpc[t] \notin StorageCalls
            /\ gh[t].asstCalls = 0
            /\ \A i \in DOMAIN ledger : ledger[i].turn # t

\* C15 witness: with a current conversation id set by an earlier turn, a
\* turn submitted with incognito set has completed its stream and ended.
C15_Witness ==
    \E t \in Turns :
        /\ tv[t].incog /\ tv[t].chat # 0
        /\ tpc[t] = "ended" /\ gh[t].doneCalls >= 1

\* C16: the step in which a storage call of onDone's persistence fails
\* leaves the error shown and the displayed message as they were, resets
\* loading and ends the turn.
C16_BestEffortPersistence ==
    [][\A t \in Turns :
          (tpc[t] \in StorageCalls \ {"creating"} /\ ~gh[t].storeFailed /\ gh'[t].storeFailed) =>
              /\ errorShown' = errorShown
              /\ last' = last
              /\ ~loading'
              /\ tpc'[t] = "ended"]_vars

\* C16 witness: a turn ended after its assistant append failed, the user
\* message stored, the answer displayed and no error shown.
C16_Witness ==
    \E t \in Turns :
        /\ tpc[t] = "ended" /\ gh[t].storeFailed
        /\ Appended(t, "user") # {} /\ Appended(t, "assistant") = {}
        /\ last.content # NoText /\ ~errorShown /\ ~loading

\* C22: while the primary stream of a turn is running, the text of the
\* assistant message shown followed by the pending liveBufferRef content is
\* the concatenation, in arrival order, of the fragments the turn received.
C22_AppendOnly ==
    \A t \in Turns : tpc[t] = "primary" => last.content \o liveBuffer = gh[t].received

\* the generation streams of turn t are open
Streaming(t) == tpc[t] \in {"primary", "cont"}

\* C23: the normalization pass runs in the step that handles the terminal
\* signal of a stream, once, and then no other stream is still delivering
\* fragments into the message it rewrites; no other step rewrites the
\* message (a tick appends the pending text, a submission starts a new one).
C23_NormalizationTiming ==
    [][/\ \A t \in Turns :
             gh'[t].doneCalls # gh[t].doneCalls =>
                 /\ gh'[t].doneCalls = gh[t].doneCalls + 1
                 /\ Streaming(t)
                 /\ last'.content = Cleaned(last.content)
                 /\ \A o \in Turns \ {t} : ~Streaming(o)
       /\ (\A t \in Turns : gh'[t].doneCalls = gh[t].doneCalls) =>
             \/ last'.content = last.content
             \/ last'.content = last.content \o liveBuffer
             \/ last'.content = NoText /\ \E t \in Turns : tpc[t] = "new" /\ tpc'[t] # "new"]_vars

\* turn t has got past its conversation step: a generation request was
\* sent, or a later step of the turn was reached
Generated(t) ==
    \/ tpc[t] \in {"primary", "cont", "appendUser", "appendAsst", "updateChat", "deleteDraft"}
    \/ gh[t].n > 0 \/ gh[t].doneCalls > 0
    \/ gh[t].failedAt # "none" \/ gh[t].stopAt \in {"primary", "cont"}

\* C24: a non-ephemeral turn for which a generation request was sent has
\* a conversation; a turn leaves the await of createChat either to its
\* primary stream, with the conversation created and made current, or, when
\* stop() hit it meanwhile, to its end, or, when createChat failed, to its
\* end with loading reset and an error shown; a turn that has ended stays
\* ended, so after a failure it sends no generation request and appends
\* nothing.
C24_AwaitingConversation ==
    /\ [](\A t \in Turns :
            /\ (Generated(t) /\ ~tv[t].incog) => tv[t].chat # 0
            /\ (tpc[t] = "ended" /\ ~tv[t].incog /\ tv[t].chat = 0) =>
                  /\ ~Generated(t)
                  /\ \A i \in DOMAIN ledger : ledger[i].turn # t)
    /\ [][\A t \in Turns :
            /\ (tpc[t] = "creating" /\ tpc'[t] # "creating") =>
                  \/ /\ tpc'[t] = "primary"
                     /\ tv'[t].chat # 0 /\ currentChatId' = tv'[t].chat
                  \/ /\ tpc'[t] = "ended" /\ tv'[t].chat # 0
                     /\ <<t, 1>> \in aborted /\ ~loading'
                  \/ /\ tpc'[t] = "ended" /\ tv'[t].chat = 0
                     /\ ~loading' /\ errorShown'
            /\ tpc[t] = "ended" => tpc'[t] = "ended"]_vars

\* C24 witness: the createChat of one turn failed and the turn has ended;
\* the next turn had its conversation created and is streaming.
C24_Witness ==
    \E t, o \in Turns :
        /\ tpc[t] = "ended" /\ ~tv[t].incog /\ tv[t].chat = 0
        /\ tpc[o] = "primary" /\ ~tv[o].incog /\ tv[o].chat # 0 /\ gh[o].n > 0

\* the first 60 characters of a text
First60(u) == SubSeq(u, 1, IF Len(u) < TitleLen THEN Len(u) ELSE TitleLen)

\* the order of the storage calls of onDone in one step: a call is awaited
\* only in the step in which the call before it succeeded, the first of them
\* from the end of a stream; the ledger and the metadata change only in a
\* step of the call that writes them; no stream follows a storage call
ReconcileOrder ==
    \A t \in Turns :
        /\ (tpc'[t] = "appendUser" /\ tpc[t] # "appendUser") => Streaming(t)
        /\ (tpc'[t] = "appendAsst" /\ tpc[t] # "appendAsst") =>
              /\ tpc[t] = "appendUser"
              /\ Appended(t, "user") = {} /\ Appended(t, "user")' # {}
        /\ (tpc'[t] = "updateChat" /\ tpc[t] # "updateChat") =>
              /\ tpc[t] = "appendAsst" /\ Appended(t, "user") # {}
              /\ Appended(t, "assistant") = {} /\ Appended(t, "assistant")' # {}
        /\ (tpc'[t] = "deleteDraft" /\ tpc[t] # "deleteDraft") =>
              /\ tpc[t] = "updateChat" /\ Appended(t, "assistant") # {}
              /\ gh[t].updates = 0 /\ gh'[t].updates = 1
        /\ Appended(t, "user")' # Appended(t, "user") => tpc[t] = "appendUser"
        /\ Appended(t, "assistant")' # Appended(t, "assistant") => tpc[t] = "appendAsst"
        /\ gh'[t].updates # gh[t].updates => tpc[t] = "updateChat"
        /\ tpc[t] \in StorageCalls \ {"creating"} => tpc'[t] \notin {"primary", "cont"}

\* the continuation step of a turn that awaits a storage call of onDone has
\* finished: the primary stream completed, and a repair stream that was
\* opened has completed, failed or been aborted
ContinuationFinished ==
    \A t \in Turns :
        tpc[t] \in StorageCalls \ {"creating"} =>
            /\ gh[t].doneCalls >= 1
            /\ gh[t].repairs >= 1 =>
                  gh[t].doneCalls >= 2 \/ gh[t].failedAt = "cont" \/ gh[t].stopAt = "cont"

\* C25 as stated: the storage calls of a turn are made in the order user
\* append, assistant append, metadata update, draft delete, each only after
\* the one before succeeded and all after the continuation step; the title
\* of the metadata update is the first 60 characters of the user text.
C25_TitleIsPrefix ==
    /\ [](ContinuationFinished /\
          \A t \in Turns : gh[t].updates >= 1 => gh[t].title = First60(Prompt(t)))
    /\ [][ReconcileOrder]_vars

\* C25 amended: the same order; the title of the metadata update is the
\* first 60 characters of the user text, or "Chat" when the user text is
\* empty (a turn submitted with a document only).
C25_ReconcilingOrder ==
    /\ [](ContinuationFinished /\
          \A t \in Turns :
              gh[t].updates >= 1 =>
                  gh[t].title = IF Prompt(t) = NoText THEN ChatTitle ELSE First60(Prompt(t)))
    /\ [][ReconcileOrder]_vars

\* C25 witness: every turn of the run has made its four storage calls, one
\* of them after a repair stream, one with an empty user text and one with a
\* user text of more than 60 characters.
C25_Witness ==
    /\ \A t \in Turns : tpc[t] = "ended" /\ gh[t].updates = 1 /\ ~gh[t].storeFailed
    /\ \E t \in Turns : gh[t].repairs = 1
    /\ \E t \in Turns : Prompt(t) = NoText
    /\ \E t \in Turns : Len(Prompt(t)) > TitleLen

\* turn t is in flight: awaiting its conversation, streaming or reconciling
InFlightTurn(t) == tpc[t] \notin {"new", "ended"}

\* C26: at most one turn is in flight, and at most one generation stream
\* is open; a submission is taken only while no turn is in flight.
C26_OneTurnAtATime ==
    /\ Cardinality({t \in Turns : InFlightTurn(t)}) <= 1
    /\ Cardinality({t \in Turns : Streaming(t)}) <= 1

\* C27: in the step in which a turn starts streaming liveBufferRef is
\* empty, so nothing an earlier turn received is pending for its message.
C27_BufferPerTurn ==
    [][\A t \in Turns :
          (tpc[t] # "primary" /\ tpc'[t] = "primary") => liveBuffer' = NoText]_vars

\* C28: the step in which stop() aborts the primary stream of a turn ends
\* that turn's stream, leaves the flush timer stopped and the pending buffer
\* empty, leaves the displayed message and the error shown as they were, and
\* resets loading.
C28_CancelStreaming ==
    [][\A t \in Turns :
          (gh[t].stopAt # "primary" /\ gh'[t].stopAt = "primary") =>
              /\ tpc[t] = "primary" /\ tpc'[t] = "ended"
              /\ ~flushTimer' /\ liveBuffer' = NoText
              /\ last' = last
              /\ ~loading' /\ errorShown' = errorShown
              /\ abortRef' = NoCtrl]_vars

\* C28 witness: the only turn submitted was cancelled in its primary
\* stream with one fragment flushed to the view and another one pending; the
\* flushed one is still displayed, the pending one is gone.
C28_Witness ==
    \E t \in Turns :
        /\ gh[t].stopAt = "primary" /\ tpc[t] = "ended"
        /\ \A o \in Turns \ {t} : tpc[o] = "new"
        /\ last.content # NoText /\ Len(gh[t].received) > Len(last.content)
        /\ liveBuffer = NoText /\ ~flushTimer /\ ~loading /\ ~errorShown

\* C29: when every awaited call returns or raises, a turn in flight
\* leads to a state where it has ended with loading reset, and loading is
\* never set while no turn is in flight.
C29_EventuallyIdle ==
    /\ []((\A t \in Turns : ~InFlightTurn(t)) => ~loading)
    /\ \A t \in Turns : InFlightTurn(t) ~> (tpc[t] = "ended" /\ ~loading)

\* C29 witness: every turn of the run has ended and loading is reset, one
\* turn after its createChat failed, another after stop() aborted its
\* continuation stream.
C29_Witness ==
    /\ \A t \in Turns : tpc[t] = "ended"
    /\ ~loading
    /\ \E t \in Turns : ~tv[t].incog /\ tv[t].chat = 0
    /\ \E t \in Turns : gh[t].stopAt = "cont"

\* C32: in the step that commits the assistant append of a turn, the
\* appended content is the text displayed in the assistant message, and it
\* is in normalized form, as every output of the normalization pass is: not
\* a text an earlier flush or an earlier turn left in lastAssistantTextRef.
C32_PersistedIsSettled ==
    [][(Len(ledger') = Len(ledger) + 1 /\ ledger'[Len(ledger')].role = "assistant") =>
          LET c == ledger'[Len(ledger')].content
          IN  c = last.content /\ NormalizeText(c) = c]_vars

\* turn t is reconciling: onDone awaits one of its storage calls
Reconciling(t) == tpc[t] \in {"appendUser", "appendAsst", "updateChat", "deleteDraft"}

\* C33: loading is true in every state in which a generation stream or the
\* reconciliation of a turn is in progress, and while a stream is in flight
\* abortRef holds the controller of that stream, so that Stop is enabled
\* and aborts it.
C33_BusyAccurate ==
    \A t \in Turns :
        /\ (Streaming(t) \/ Reconciling(t)) => loading
        /\ Streaming(t) => abortRef = <<t, IF tpc[t] = "cont" THEN 2 ELSE 1>>

\* C34: whenever no turn is in flight, no flush timer is active and the
\* pending buffer is empty: every exit from a turn leaves flushTimerRef
\* null and liveBufferRef empty, so that nothing is appended to the
\* displayed messages after the turn has ended.
C34_IdleQuiescent ==
    (\A t \in Turns : ~InFlightTurn(t)) => (~flushTimer /\ liveBuffer = NoText)

----------------------------------------------------------------------------
(* Part III: properties of the stream reader *)

\* the text of the onDelta calls among evs, in order
RECURSIVE DeltaText(_)
DeltaText(evs) ==
    IF evs = <<>> THEN <<>>
    ELSE (IF Head(evs).kind = "delta" THEN Head(evs).text ELSE <<>>) \o DeltaText(Tail(evs))

\* the content of the records among lines, up to the first with done set
RECURSIVE RecordText(_)
RecordText(lines) ==
    IF lines = <<>> THEN <<>>
    ELSE LET s == Trim(Head(lines))
         IN  IF ~IsRecord(s) THEN RecordText(Tail(lines))
             ELSE IF IsDone(s) THEN Content(s)
             ELSE Content(s) \o RecordText(Tail(lines))

\* C11: however the bytes of a body are split into chunks, a run that
\* ended (by return or by an exception of the line loop) has made the
\* onDelta / onDone calls, in order, of the run on the unsplit body and ended
\* the same way; the accumulated text is the concatenation of the fragments
\* passed to onDelta.
C11_ChunkingIndependent ==
    dpc \in {"returned", "raised"} =>
        /\ events = Unsplit(whole).events
        /\ acc = Unsplit(whole).acc
        /\ dpc = Unsplit(whole).pc
        /\ acc = DeltaText(events)

\* C11 witness: a run returned with two fragments emitted, a chunk having
\* ended inside a record with content.
C11_Witness == dpc = "returned" /\ cut /\ Len(events) >= 3

\* C12: a line that is not a record never makes the run raise, and the
\* accumulated text of a run that ended is the content of the records of the
\* body, the lines that are no records left out.
C12_MalformedSkipped ==
    dpc \in {"returned", "raised"} =>
        /\ dpc = "returned"
        /\ acc = RecordText(SplitNl(whole))

\* C20: onDone is called at most once and is the last call made; it has
\* been called exactly when the run returned, so never in a run that raised
\* or whose read rejected; what a run that returned has emitted is the
\* content of the records up to the first with done set, the rest of the
\* body ignored.
C20_TerminalEndsSequence ==
    /\ \A i \in 1..Len(events) : events[i].kind = "done" => i = Len(events)
    /\ dpc = "returned" <=> (events # <<>> /\ events[Len(events)].kind = "done")
    /\ dpc = "returned" =>
          /\ DeltaText(events) = RecordText(SplitNl(whole))
          /\ events[Len(events)].text = acc

\* C20 witness: a run returned at a record with done set with a record that
\* has content still unread behind it.
C20_Witness ==
    /\ dpc = "returned" /\ Len(events) >= 2
    /\ \E i \in 1..Len(wire) - 1 : wire[i] = "{" /\ wire[i + 1] = "a"

\* the lines of a body the line loop gets: all but the unterminated last
CompleteLines(w) == SubSeq(SplitNl(w), 1, Len(SplitNl(w)) - 1)
\* the unterminated last line of a body, trimmed
TailLine(w) == Trim(SplitNl(w)[Len(SplitNl(w))])
\* a record with done set is among the complete lines of the body
TerminalSeen(w) ==
    \E i \in 1..Len(CompleteLines(w)) :
        IsRecord(Trim(CompleteLines(w)[i])) /\ IsDone(Trim(CompleteLines(w)[i]))

\* C21: a run on a body without a terminal record among its complete lines
\* that came to the end of the stream has returned with onDone as its last
\* call, the same callback as at a terminal record, passing the content of
\* all records of the body; a record with content in the unterminated last
\* line was emitted as the last delta; a last line that is no record was
\* dropped, and a run only ever raises at a complete line that is null.
C21_ImplicitCompletion ==
    /\ (dpc = "returned" /\ ~TerminalSeen(whole)) =>
          /\ events[Len(events)] = Done(RecordText(SplitNl(whole)))
          /\ DeltaText(events) = RecordText(SplitNl(whole))
          /\ \A i \in 1..Len(events) - 1 : events[i].kind = "delta"
          /\ (IsRecord(TailLine(whole)) /\ Content(TailLine(whole)) # <<>>) =>
                /\ Len(events) >= 2
                /\ events[Len(events) - 1] = Delta(Content(TailLine(whole)))
    /\ dpc = "raised" =>
          \E i \in 1..Len(CompleteLines(whole)) : IsNull(Trim(CompleteLines(whole)[i]))

\* C21 witness: the stream ended after a complete record with content and
\* an unterminated record with content, no terminal record seen, and the
\* run returned with both fragments emitted.
C21_Witness ==
    /\ dpc = "returned" /\ ~TerminalSeen(whole)
    /\ IsRecord(TailLine(whole)) /\ Content(TailLine(whole)) # <<>>
    /\ Len(events) = 3

----------------------------------------------------------------------------
(* Part IV: properties of the normalization pass *)

\* C13: a second normalization pass changes nothing: N(N(t)) = N(t) for
\* every text t, also for a t that begins with three meta lines.
C13_Idempotent == Len(nOut) >= 2 => nOut[2] = nOut[1]

----------------------------------------------------------------------------
(* Part V: properties of the storage client *)

\* the requests of the call to its own path
PathRequests == SelectSeq(sent, LAMBDA q : q.path = "api")
\* the call's first request was answered 401, 403 or 404
Challenged == answers # <<>> /\ answers[1] \in {401, 403, 404}
\* the call is over
Over == fpc \in {"returned", "raised"}

\* what holds of every call, reissued or not: at most two requests to its
\* path and at most one re-provisioning; a first answer other than 401, 403
\* and 404 is returned as it is; after one of the three the credentials are
\* cleared and one re-provisioning is made; the reissue carries the new key
\* and its response is returned whatever its status
BoundedReauth ==
    /\ Len(PathRequests) <= 2
    /\ provisions <= 1
    /\ Len(answers) <= Len(PathRequests)
    /\ (answers # <<>> /\ ~Challenged) =>
          /\ fpc = "returned" /\ result = answers[1]
          /\ Len(PathRequests) = 1 /\ provisions = 0
    /\ Challenged =>
          /\ provisions = 1
          /\ fpc \in {"register", "register2"} => apiKey = 0
          /\ Len(PathRequests) = 2 =>
                /\ PathRequests[2].key = apiKey /\ apiKey # 0
                /\ apiKey # PathRequests[1].key
                /\ Len(answers) = 2 => fpc = "returned" /\ result = answers[2]
    /\ fpc = "returned" => result = answers[Len(answers)]

\* C30 as stated: a call whose first request was answered 401, 403 or 404
\* and that is over has reissued the request exactly once.
C30_ReissuedOnce ==
    /\ BoundedReauth
    /\ (Challenged /\ Over) => Len(PathRequests) = 2

\* C30 amended: such a call has reissued the request exactly once when the
\* re-provisioning succeeded; when the registration failed (or its fetch
\* rejected) the call has raised with no second request and the stored
\* credentials cleared.
C30_BoundedReauth ==
    /\ BoundedReauth
    /\ (Challenged /\ Over) =>
          \/ Len(PathRequests) = 2
          \/ Len(PathRequests) = 1 /\ fpc = "raised" /\ apiKey = 0 /\ result = 0

\* C30 witness: a call answered 404 at first registered a new identity at
\* the second attempt (the first name was taken), reissued the request and
\* returned the second response, a 401.
C30_Witness ==
    /\ fpc = "returned" /\ answers = <<404, 401>> /\ result = 401
    /\ Len(sent) = 4 /\ provisions = 1 /\ apiKey # 0

====
